---- MODULE Spec2Model ----
(***************************************************************************)
(* ghreview: a state-machine model of the cache store, the remote fetcher, *)
(* the three resource loaders, the contribution classifier and the         *)
(* pagination driver of src/main.go, and of the earlier program variant    *)
(* src/unnamed/part_000 (no pagination, no year filter, no delay).         *)
(*                                                                         *)
(* A behaviour is a sequence of runs of the program over one cache         *)
(* directory: the cache survives the end of a run, everything else is      *)
(* rebuilt by the next run.                                                *)
(***************************************************************************)
EXTENDS Integers, Sequences, FiniteSets, TLC

VARIABLES
    variant,      \* which program runs: "main" (src/main.go) or "part_000"
    args,         \* os.Args[1:], the repositories of the command line
    cache,        \* the cache directory: file name -> bytes
    pc,           \* position of the (single) flow of control
    repoIdx,      \* index in args of the repository being traversed
    page,         \* main: the page counter of the for loop
    pagePulls,    \* main: pagePulls / part_000: pulls, the page being ranged over
    idx,          \* position of the range loop in pagePulls
    done,         \* main: var done bool
    authored,     \* main: var authored int
    merged,       \* main: var merged int
    pulls,        \* main: var pulls []Pull, the accumulated pull requests
    out,          \* what has been written to standard output
    kind,         \* the loader that is running: "pulls" or "events"
    key,          \* jsonFilename of the running loader
    data,         \* the bytes httpGet returned to the running loader
    events,       \* the return value of the last loadEvents
    status,       \* resp.StatusCode while httpGet's result is in use, 0 otherwise
    rd,           \* outcome of the last readCache: "none", "hit", "notfound", "ioerr"
    gets,         \* history, per run: file name -> number of httpGet invocations
    missing,      \* history, per run: the file names readCache found no file for
    ioerrs,       \* history, per run: file name -> number of failed reads of an existing file
    netOK,        \* history, per run: responses with a status in [200,299]
    delays,       \* history, per run: executions of time.Sleep
    visited,      \* history, per repository: the pulls the range loop reached, with their tag
    loaded,       \* history, per repository: the pages loadPulls returned, in order
    calls,        \* history: the file names the loaders were called for in this traversal
    written,      \* history, over all runs: file name -> the last bytes given to writeCache
    netLeft,      \* responses the remote service will still deliver
    rdErrLeft     \* read failures the storage will still produce

vars == <<variant, args, cache, pc, repoIdx, page, pagePulls, idx, done,
          authored, merged, pulls, out, kind, key, data, events, status, rd,
          gets, missing, ioerrs, netOK, delays, visited, loaded, calls, written,
          netLeft, rdErrLeft>>

(***************************************************************************)
(* Bounds of the model.                                                    *)
(***************************************************************************)
MaxNet == 3         \* responses delivered by the remote service, over all runs
MaxReadErr == 1     \* failed reads of an existing cache file, over all runs

(***************************************************************************)
(* Program constants.                                                      *)
(***************************************************************************)
TargetYear == 2021
TargetUser == "mpenkov"
MaxSuccess == 299


(***************************************************************************)
(* JSON texts.  A body is the text of a response or of a cache file: text  *)
(* that is not JSON at all, or a JSON array of objects with the API's      *)
(* lower-case keys.  A created_at text is kept as its fields plus a mark   *)
(* of its layout, since only the layout "2006-01-02T15:04:05Z" parses.     *)
(***************************************************************************)
InvalidJson == [shape |-> "invalid", elems |-> <<>>]
JsonArray(es) == [shape |-> "array", elems |-> es]

Stamp(y, m, d) == [y |-> y, m |-> m, d |-> d, layout |-> "Z"]
DateOnly(y, m, d) == [y |-> y, m |-> m, d |-> d, layout |-> "date"]

JsonPull(n, created, st, login) ==
    [number |-> n, created_at |-> created, state |-> st, user |-> [login |-> login]]

JsonEvent(login, ev) == [actor |-> [login |-> login], event |-> ev]

(***************************************************************************)
(* The Go values the texts decode to.                                      *)
(***************************************************************************)
NoTimestamp == <<>>

User(login) == [Login |-> login]

Pull(o) ==
    [Number |-> o.number, CreatedAt |-> o.created_at, State |-> o.state,
     User |-> User(o.user.login), MyContribution |-> "", Timestamp |-> NoTimestamp]

Event(o) == [Actor |-> User(o.actor.login), Event |-> o.event]

\* json.Unmarshal(data, &pulls) on a nil slice: the slice it leaves and whether it failed
UnmarshalPulls(b) ==
    IF b.shape = "array"
    THEN [val |-> [i \in 1..Len(b.elems) |-> Pull(b.elems[i])], err |-> FALSE]
    ELSE [val |-> <<>>, err |-> TRUE]

\* json.Unmarshal(data, &events) on a nil slice
UnmarshalEvents(b) ==
    IF b.shape = "array"
    THEN [val |-> [i \in 1..Len(b.elems) |-> Event(b.elems[i])], err |-> FALSE]
    ELSE [val |-> <<>>, err |-> TRUE]

(***************************************************************************)
(* Cache file names.                                                       *)
(***************************************************************************)
PullsFile(repo, n) == <<"cache", repo, "pulls", n>>
EventsFile(repo, n) == <<"cache", repo, "events", n>>

\* faulty variant: the file is opened under another name and so never found
ReadCacheElsewhere(files, path, fault) == [data |-> InvalidJson, err |-> TRUE]

\* readCache as the loaders see it: the bytes when the file can be opened and read
ReadCache(files, path, fault) ==
    IF path \in DOMAIN files /\ ~fault
    THEN [data |-> files[path], err |-> FALSE]
    ELSE [data |-> InvalidJson, err |-> TRUE]

\* faulty variant: the bytes never reach the file
WriteCacheDropped(files, path, bytes) == files

\* faulty variant: the directory tree is recreated, the other files are lost
WriteCacheAlone(files, path, bytes) == (path :> bytes)

\* writeCache when MkdirAll and WriteFile succeed
\* a writeCache that does not truncate: an existing file keeps its content
WriteCacheOnce(files, path, bytes) == files @@ (path :> bytes)

WriteCache(files, path, bytes) == (path :> bytes) @@ files

(***************************************************************************)
(* Sorting a page: sort.Sort(PullList(pagePulls)).                         *)
(***************************************************************************)
Less(a, b) == a.Number > b.Number

RECURSIVE Insert(_, _)
Insert(p, s) ==
    IF s = <<>> THEN <<p>>
    ELSE IF Less(s[1], p) THEN <<s[1]>> \o Insert(p, Tail(s))
    ELSE <<p>> \o s

\* faulty variant: the page is left in the order of the response
SortPullsSkipped(s) == s

RECURSIVE SortPulls(_)
SortPulls(s) == IF s = <<>> THEN <<>> ELSE Insert(s[1], SortPulls(Tail(s)))

(***************************************************************************)
(* parseTime, whoMerged and the classification of one pull request.        *)
(***************************************************************************)
ParseTime(p) ==
    IF p.CreatedAt.layout = "Z"
    THEN [ok |-> TRUE, year |-> p.CreatedAt.y,
          date |-> <<p.CreatedAt.y, p.CreatedAt.m, p.CreatedAt.d>>]
    ELSE [ok |-> FALSE, year |-> 0, date |-> NoTimestamp]

\* faulty variant: the loop does not return at the first "merged" event, the last one wins
WhoMergedLast(evs) ==
    IF \E i \in DOMAIN evs : evs[i].Event = "merged"
    THEN evs[CHOOSE i \in DOMAIN evs :
                /\ evs[i].Event = "merged"
                /\ \A j \in DOMAIN evs : j > i => evs[j].Event # "merged"].Actor
    ELSE User("nobody")

RECURSIVE WhoMerged(_)
WhoMerged(evs) ==
    IF evs = <<>> THEN User("nobody")
    ELSE IF evs[1].Event = "merged" THEN evs[1].Actor
    ELSE WhoMerged(Tail(evs))

\* faulty variant: only an open pull request counts as authored
IsAuthorWhileOpen(p) == p.User.Login = TargetUser /\ p.State = "open"

IsAuthor(p) == p.User.Login = TargetUser
\* faulty variant: whoMerged is asked for open pull requests too
NeedsEventsAnyState(p) == ~IsAuthor(p)

NeedsEvents(p) == ~IsAuthor(p) /\ p.State = "closed"
\* faulty variant: only the first event of the list is looked at
IsMergerByFirstEvent(evs) ==
    evs # <<>> /\ evs[1].Event = "merged" /\ evs[1].Actor.Login = TargetUser

IsMerger(evs) == WhoMerged(evs).Login = TargetUser

RepoResult(name, ps, a, m) == [Name |-> name, Pulls |-> ps, Authored |-> a, Merged |-> m]

(***************************************************************************)
(* The remote service.  The event list of an issue is history that does    *)
(* not change, so it is a function of the issue number; a page of pull     *)
(* requests changes as pull requests are opened, so each request for a     *)
(* page may be answered by any of PullBodies.                              *)
(***************************************************************************)
StatusCodes == {101, 200, 404}

\* the status codes the specification calls a success
SuccessRange == 200..299

RemoteEvents(n) ==
    CASE n = 1 -> InvalidJson
      [] n = 2 -> JsonArray(<<JsonEvent(TargetUser, "closed")>>)
      [] n = 3 -> JsonArray(<<JsonEvent("other", "closed"), JsonEvent("other", "merged"),
                              JsonEvent(TargetUser, "merged")>>)
      [] n = 4 -> JsonArray(<<JsonEvent(TargetUser, "merged")>>)
      [] n = 6 -> JsonArray(<<JsonEvent(TargetUser, "merged")>>)
      [] n = 11 -> JsonArray(<<JsonEvent("other", "closed"), JsonEvent(TargetUser, "merged")>>)
      [] OTHER -> JsonArray(<<>>)

P1 == JsonPull(1, Stamp(2021, 1, 10), "closed", "other")
P2 == JsonPull(2, Stamp(2021, 1, 20), "closed", "other")
P3 == JsonPull(3, Stamp(2021, 1, 30), "closed", "other")
P4 == JsonPull(4, Stamp(2021, 2, 1), "closed", "other")
P5 == JsonPull(5, Stamp(2021, 3, 1), "open", TargetUser)
P6 == JsonPull(6, Stamp(2021, 4, 1), "closed", TargetUser)
P7 == JsonPull(7, Stamp(2021, 5, 1), "open", "other")
P8 == JsonPull(8, Stamp(2020, 12, 31), "closed", TargetUser)
P9 == JsonPull(9, Stamp(2022, 1, 1), "open", TargetUser)
P10 == JsonPull(10, DateOnly(2021, 6, 1), "open", TargetUser)
P11 == JsonPull(11, Stamp(2021, 7, 1), "closed", "other")

PullBodies ==
    { JsonArray(<<>>), InvalidJson,
      JsonArray(<<P4, P5>>), JsonArray(<<P5, P4>>),
      JsonArray(<<P3, P6, P7, P9>>), JsonArray(<<P1, P2>>),
      JsonArray(<<P4, P5, P8, P11>>), JsonArray(<<P7, P10>>) }

Bodies(path) == IF path[3] = "pulls" THEN PullBodies ELSE {RemoteEvents(path[4])}

\* the command lines tried: one repository, the same one twice, two repositories
ArgLists == {<<"octo/demo">>, <<"octo/demo", "octo/demo">>, <<"octo/demo", "octo/other">>}

(***************************************************************************)
(* The state at the start of a run.                                        *)
(***************************************************************************)
NoFiles == [f \in {} |-> InvalidJson]
NoCounts == [f \in {} |-> 0]
NoKey == <<>>
NoWrites == [f \in {} |-> [bytes |-> InvalidJson, over |-> FALSE]]

\* The record of a call writeCache(path, bytes): the bytes, and whether the
\* file held other bytes from an earlier call.
Logged(w, path, bytes) ==
    (path :> [bytes |-> bytes,
              over  |-> path \in DOMAIN w /\ w[path].bytes # bytes]) @@ w

Count(c, path) == IF path \in DOMAIN c THEN c[path] ELSE 0
Bump(c, path) == (path :> (Count(c, path) + 1)) @@ c

RunStart ==
    /\ pc = "start"
    /\ repoIdx = 0 /\ page = 0 /\ pagePulls = <<>> /\ idx = 0
    /\ done = FALSE /\ authored = 0 /\ merged = 0 /\ pulls = <<>>
    /\ out = [header |-> FALSE, body |-> <<>>]
    /\ kind = "none" /\ key = NoKey /\ data = InvalidJson /\ events = <<>>
    /\ status = 0 /\ rd = "none"
    /\ gets = NoCounts /\ missing = {} /\ ioerrs = NoCounts /\ netOK = 0 /\ delays = 0
    /\ visited = <<>> /\ loaded = <<>> /\ calls = <<>>

Init ==
    /\ variant \in {"main", "part_000"}
    /\ args \in ArgLists
    /\ cache = NoFiles
    /\ written = NoWrites
    /\ netLeft = MaxNet
    /\ rdErrLeft = MaxReadErr
    /\ RunStart

repo == args[repoIdx]
cur == pagePulls[idx]

(***************************************************************************)
(* main: the header, the loop over the repositories, the end of the run.   *)
(***************************************************************************)
fixed == <<variant, args>>
budget == <<netLeft, rdErrLeft>>
loop == <<repoIdx, page, pagePulls, idx, done, authored, merged, pulls>>
loader == <<kind, key, data, events, status, rd>>
history == <<gets, missing, ioerrs, netOK, delays, visited, loaded, calls>>

\* fmt.Println(header); part_000 prints none
Start ==
    /\ pc = "start"
    /\ out' = [out EXCEPT !.header = (variant = "main")]
    /\ pc' = "repo"
    /\ UNCHANGED <<fixed, budget, cache, written, loop, loader, history>>

\* for _, repo := range(repos): the next repository and its fresh locals
NextRepo ==
    /\ pc = "repo"
    /\ repoIdx < Len(args)
    /\ repoIdx' = repoIdx + 1
    /\ pulls' = <<>> /\ done' = FALSE /\ authored' = 0 /\ merged' = 0
    /\ page' = 1
    /\ visited' = <<>> /\ loaded' = <<>> /\ calls' = <<>>
    /\ pc' = "loadPulls"
    /\ UNCHANGED <<fixed, budget, cache, written, pagePulls, idx, out, loader,
                   gets, missing, ioerrs, netOK, delays>>

\* the range over repos is exhausted: main returns
Exit ==
    /\ pc = "repo"
    /\ repoIdx = Len(args)
    /\ pc' = "exit"
    /\ UNCHANGED <<fixed, budget, cache, written, loop, out, loader, history>>

\* the program is run again on the same command line and cache directory
Restart ==
    /\ pc \in {"exit", "fatal"}
    /\ pc' = "start"
    /\ repoIdx' = 0 /\ page' = 0 /\ pagePulls' = <<>> /\ idx' = 0
    /\ done' = FALSE /\ authored' = 0 /\ merged' = 0 /\ pulls' = <<>>
    /\ out' = [header |-> FALSE, body |-> <<>>]
    /\ kind' = "none" /\ key' = NoKey /\ data' = InvalidJson /\ events' = <<>>
    /\ status' = 0 /\ rd' = "none"
    /\ gets' = NoCounts /\ missing' = {} /\ ioerrs' = NoCounts /\ netOK' = 0 /\ delays' = 0
    /\ visited' = <<>> /\ loaded' = <<>> /\ calls' = <<>>
    /\ UNCHANGED <<fixed, budget, cache, written>>

(***************************************************************************)
(* The loaders.  A loader first reads the cache; on any error of readCache *)
(* it goes to the wire: httpGet, writeCache, json.Unmarshal.               *)
(***************************************************************************)
\* the first half of a loader, up to the return on err == nil
Lookup(path, k) ==
    \E fault \in BOOLEAN :
        /\ fault => (path \in DOMAIN cache /\ rdErrLeft > 0)
        /\ rdErrLeft' = IF fault THEN rdErrLeft - 1 ELSE rdErrLeft
        /\ ioerrs' = IF fault THEN Bump(ioerrs, path) ELSE ioerrs
        /\ missing' = IF path \in DOMAIN cache THEN missing ELSE missing \cup {path}
        /\ kind' = k
        /\ key' = path
        /\ calls' = Append(calls, path)
        /\ LET r == ReadCache(cache, path, fault) IN
            IF ~r.err
            THEN /\ rd' = "hit"
                 /\ IF k = "pulls"
                    THEN /\ pagePulls' = UnmarshalPulls(r.data).val
                         /\ pc' = "page"
                         /\ UNCHANGED events
                    ELSE /\ events' = UnmarshalEvents(r.data).val
                         /\ pc' = "whoMerged"
                         /\ UNCHANGED pagePulls
            ELSE /\ rd' = IF fault THEN "ioerr" ELSE "notfound"
                 /\ pc' = "httpGet"
                 /\ UNCHANGED <<pagePulls, events>>
        /\ UNCHANGED <<fixed, netLeft, cache, written, repoIdx, page, idx, done, authored,
                       merged, pulls, out, data, status, gets, netOK, delays,
                       visited, loaded>>

LoadPulls ==
    /\ pc = "loadPulls"
    /\ Lookup(PullsFile(repo, page), "pulls")

LoadEvents ==
    /\ pc = "loadEvents"
    /\ Lookup(EventsFile(repo, cur.Number), "events")

\* http.Get fails: log.Fatal
HttpGetError ==
    /\ pc = "httpGet"
    /\ gets' = Bump(gets, key)
    /\ pc' = "fatal"
    /\ UNCHANGED <<fixed, budget, cache, written, loop, out, loader,
                   missing, ioerrs, netOK, delays, visited, loaded, calls>>

\* what httpGet does with a response of status code s
Accepts(s) == ~(s > MaxSuccess)

\* http.Get answers with status s and body b; once the remote service has delivered
\* MaxNet responses every further request fails (HttpGetError)
HttpGet ==
    /\ pc = "httpGet"
    /\ netLeft > 0
    /\ \E s \in StatusCodes, b \in Bodies(key) :
        /\ netLeft' = netLeft - 1
        /\ gets' = Bump(gets, key)
        /\ status' = s
        /\ netOK' = IF s \in SuccessRange THEN netOK + 1 ELSE netOK
        /\ IF Accepts(s)
           THEN /\ data' = b
                /\ pc' = IF variant = "main" THEN "sleep" ELSE "writeCache"
           ELSE /\ pc' = "fatal"
                /\ UNCHANGED data
    /\ UNCHANGED <<fixed, rdErrLeft, cache, written, loop, out, kind, key, events, rd,
                   missing, ioerrs, delays, visited, loaded, calls>>

\* time.Sleep(5000 * time.Millisecond); return body
Sleep ==
    /\ pc = "sleep"
    /\ delays' = delays + 1
    /\ pc' = "writeCache"
    /\ UNCHANGED <<fixed, budget, cache, written, loop, out, loader,
                   gets, calls, missing, ioerrs, netOK, visited, loaded>>

\* faulty variant: the bytes are decoded first and only written when they decode
CacheWriteIfDecodable ==
    /\ pc = "writeCache"
    /\ LET bad == IF kind = "pulls" THEN UnmarshalPulls(data).err
                  ELSE UnmarshalEvents(data).err
       IN /\ cache' = IF bad THEN cache ELSE WriteCache(cache, key, data)
          /\ written' = IF bad THEN written ELSE Logged(written, key, data)
    /\ pc' = "unmarshal"
    /\ UNCHANGED <<fixed, budget, loop, out, loader, history>>

\* writeCache(jsonFilename, data)
CacheWrite ==
    /\ pc = "writeCache"
    /\ cache' = WriteCache(cache, key, data)
    /\ written' = Logged(written, key, data)
    /\ pc' = "unmarshal"
    /\ UNCHANGED <<fixed, budget, loop, out, loader, history>>

\* os.MkdirAll or os.WriteFile fails: log.Fatalf
CacheWriteError ==
    /\ pc = "writeCache"
    /\ pc' = "fatal"
    /\ UNCHANGED <<fixed, budget, cache, written, loop, out, loader, history>>

\* json.Unmarshal of the fetched bytes; log.Fatalf on an error
Unmarshal ==
    /\ pc = "unmarshal"
    /\ IF kind = "pulls"
       THEN LET u == UnmarshalPulls(data) IN
            /\ pc' = IF u.err THEN "fatal" ELSE "page"
            /\ pagePulls' = IF u.err THEN pagePulls ELSE u.val
            /\ UNCHANGED events
       ELSE LET u == UnmarshalEvents(data) IN
            /\ pc' = IF u.err THEN "fatal" ELSE "whoMerged"
            /\ events' = IF u.err THEN events ELSE u.val
            /\ UNCHANGED pagePulls
    /\ status' = 0
    /\ UNCHANGED <<fixed, budget, cache, written, repoIdx, page, idx, done, authored, merged,
                   pulls, out, kind, key, data, rd, history>>

(***************************************************************************)
(* The pagination driver (main) and the single-page loop of part_000.      *)
(***************************************************************************)
Visit(p, tag) == Append(visited, [pull |-> p, tag |-> tag, page |-> page])
Tagged(p, tag, ts) == [p EXCEPT !.MyContribution = tag, !.Timestamp = ts]

\* faulty variant: the emptiness test is missing
EmptyPageIgnored(ps) == FALSE

\* does the driver stop at a page of this length?
EmptyPage(ps) == Len(ps) = 0

\* loadPulls has returned: the emptiness test and the sort of main;
\* part_000 ranges over the page as it came
PageLoaded ==
    /\ pc = "page"
    /\ loaded' = Append(loaded, [page |-> page, pulls |-> pagePulls])
    /\ IF variant = "main"
       THEN IF EmptyPage(pagePulls)
            THEN /\ pc' = "render"
                 /\ UNCHANGED <<pagePulls, idx>>
            ELSE /\ pagePulls' = SortPulls(pagePulls)
                 /\ idx' = 1
                 /\ pc' = "pull"
       ELSE /\ idx' = 1
            /\ pc' = "pull"
            /\ UNCHANGED pagePulls
    /\ UNCHANGED <<fixed, budget, cache, written, repoIdx, page, done, authored, merged, pulls,
                   out, loader, gets, calls, missing, ioerrs, netOK, delays, visited>>

\* faulty variant: the page counter advances by two
NextPageSkips(n) == n + 2

\* page++
NextPage(n) == n + 1

\* the range over the page is exhausted: page++ and the test of !done in main,
\* the next repository in part_000
EndOfPage ==
    /\ pc = "pull"
    /\ idx > Len(pagePulls)
    /\ IF variant = "main"
       THEN /\ page' = NextPage(page)
            /\ pc' = IF done THEN "render" ELSE "loadPulls"
       ELSE /\ pc' = "repo"
            /\ UNCHANGED page
    /\ UNCHANGED <<fixed, budget, cache, written, repoIdx, pagePulls, idx, done, authored,
                   merged, pulls, out, loader, history>>

\* main: parseTime fails, log.Fatalf
BadTime ==
    /\ pc = "pull" /\ idx <= Len(pagePulls) /\ variant = "main"
    /\ ~ParseTime(cur).ok
    /\ pc' = "fatal"
    /\ UNCHANGED <<fixed, budget, cache, written, loop, out, loader, history>>

\* faulty variant: an older pull request is skipped like a newer one
YearCaseWithoutCutoff(y) ==
    IF y # TargetYear THEN "future" ELSE "classify"

\* faulty variant: a pull request newer than the target year ends the traversal too
YearCaseFutureEnds(y) ==
    IF y = TargetYear THEN "classify" ELSE "cutoff"

\* where the year of a pull request sends the range loop of main
YearCase(y) ==
    IF y > TargetYear THEN "future"
    ELSE IF y < TargetYear THEN "cutoff"
    ELSE "classify"

\* main: ts.Year() > 2021, continue
SkipFuture ==
    /\ pc = "pull" /\ idx <= Len(pagePulls) /\ variant = "main"
    /\ ParseTime(cur).ok
    /\ YearCase(ParseTime(cur).year) = "future"
    /\ idx' = idx + 1
    /\ visited' = Visit(cur, "future")
    /\ UNCHANGED <<fixed, budget, cache, written, pc, repoIdx, page, pagePulls, done, authored,
                   merged, pulls, out, loader, gets, calls, missing, ioerrs, netOK, delays, loaded>>

\* faulty variant: done = true without the break, the range over the page goes on
CutoffWithoutBreak ==
    /\ pc = "pull" /\ idx <= Len(pagePulls) /\ variant = "main"
    /\ ParseTime(cur).ok
    /\ YearCase(ParseTime(cur).year) = "cutoff"
    /\ done' = TRUE
    /\ idx' = idx + 1
    /\ visited' = Visit(cur, "cutoff")
    /\ UNCHANGED <<fixed, budget, cache, written, pc, repoIdx, page, pagePulls, authored,
                   merged, pulls, out, loader, gets, calls, missing, ioerrs, netOK, delays,
                   loaded>>

\* main: ts.Year() < 2021, done = true and break; then page++ and !done fails
Cutoff ==
    /\ pc = "pull" /\ idx <= Len(pagePulls) /\ variant = "main"
    /\ ParseTime(cur).ok
    /\ YearCase(ParseTime(cur).year) = "cutoff"
    /\ done' = TRUE
    /\ page' = NextPage(page)
    /\ pc' = "render"
    /\ visited' = Visit(cur, "cutoff")
    /\ UNCHANGED <<fixed, budget, cache, written, repoIdx, pagePulls, idx, authored, merged,
                   pulls, out, loader, gets, calls, missing, ioerrs, netOK, delays, loaded>>

\* the pull request reaches the classification: always in part_000, in main
\* when its year is the target year
Classifies ==
    /\ pc = "pull" /\ idx <= Len(pagePulls)
    /\ variant = "main" =>
        /\ ParseTime(cur).ok
        /\ YearCase(ParseTime(cur).year) = "classify"

\* p.Timestamp = ts.Format("2006-01-02") in main; part_000 has no such field to set
DisplayTime(p) == IF variant = "main" THEN ParseTime(p).date ELSE NoTimestamp

\* faulty variant: a merged pull request is appended but not counted
KeepUncounted(p, tag) ==
    LET q == Tagged(p, tag, DisplayTime(p)) IN
    IF variant = "main"
    THEN /\ pulls' = Append(pulls, q)
         /\ authored' = IF tag = "authored" THEN authored + 1 ELSE authored
         /\ UNCHANGED <<merged, out>>
    ELSE /\ out' = [out EXCEPT !.body = Append(@, q)]
         /\ UNCHANGED <<pulls, authored, merged>>

\* the pull request is kept: appended to pulls in main, printed in part_000
Keep(p, tag) ==
    LET q == Tagged(p, tag, DisplayTime(p)) IN
    IF variant = "main"
    THEN /\ pulls' = Append(pulls, q)
         /\ authored' = IF tag = "authored" THEN authored + 1 ELSE authored
         /\ merged' = IF tag = "merged" THEN merged + 1 ELSE merged
         /\ UNCHANGED out
    ELSE /\ out' = [out EXCEPT !.body = Append(@, q)]
         /\ UNCHANGED <<pulls, authored, merged>>

\* p.User.Login == "mpenkov"
Authored ==
    /\ Classifies
    /\ IsAuthor(cur)
    /\ Keep(cur, "authored")
    /\ idx' = idx + 1
    /\ visited' = Visit(cur, "authored")
    /\ UNCHANGED <<fixed, budget, cache, written, pc, repoIdx, page, pagePulls, done,
                   loader, gets, calls, missing, ioerrs, netOK, delays, loaded>>

\* p.State == "closed" && whoMerged(repo, p.Number)...: the call of loadEvents
AskEvents ==
    /\ Classifies
    /\ NeedsEvents(cur)
    /\ pc' = "loadEvents"
    /\ UNCHANGED <<fixed, budget, cache, written, loop, out, loader, history>>

\* neither branch: continue in main, nothing printed in part_000
NotMine ==
    /\ Classifies
    /\ ~IsAuthor(cur) /\ ~NeedsEvents(cur)
    /\ idx' = idx + 1
    /\ visited' = Visit(cur, "none")
    /\ UNCHANGED <<fixed, budget, cache, written, pc, repoIdx, page, pagePulls, done, authored,
                   merged, pulls, out, loader, gets, calls, missing, ioerrs, netOK, delays, loaded>>

\* loadEvents has returned: whoMerged(...).Login == "mpenkov" decides
Merged ==
    /\ pc = "whoMerged"
    /\ IF IsMerger(events)
       THEN /\ Keep(cur, "merged")
            /\ visited' = Visit(cur, "merged")
       ELSE /\ visited' = Visit(cur, "none")
            /\ UNCHANGED <<pulls, authored, merged, out>>
    /\ idx' = idx + 1
    /\ pc' = "pull"
    /\ UNCHANGED <<fixed, budget, cache, written, repoIdx, page, pagePulls, done,
                   loader, gets, calls, missing, ioerrs, netOK, delays, loaded>>

\* report.Execute(os.Stdout, RepoResult{repo, pulls, authored, merged})
Render ==
    /\ pc = "render"
    /\ out' = [out EXCEPT !.body = Append(@, RepoResult(repo, pulls, authored, merged))]
    /\ pc' = "repo"
    /\ UNCHANGED <<fixed, budget, cache, written, loop, loader, history>>

Next ==
    \/ Start \/ NextRepo \/ Exit \/ Restart
    \/ LoadPulls \/ LoadEvents
    \/ HttpGetError \/ HttpGet \/ Sleep \/ CacheWrite \/ CacheWriteError \/ Unmarshal
    \/ PageLoaded \/ EndOfPage \/ BadTime \/ SkipFuture \/ Cutoff
    \/ Authored \/ AskEvents \/ NotMine \/ Merged \/ Render

Spec == Init /\ [][Next]_vars

\* every step of a run: the program is one sequential process that takes its next step
\* until it exits or terminates; running it again is up to the user
Step ==
    \/ Start \/ NextRepo \/ Exit
    \/ LoadPulls \/ LoadEvents
    \/ HttpGetError \/ HttpGet \/ Sleep \/ CacheWrite \/ CacheWriteError \/ Unmarshal
    \/ PageLoaded \/ EndOfPage \/ BadTime \/ SkipFuture \/ Cutoff
    \/ Authored \/ AskEvents \/ NotMine \/ Merged \/ Render

FairSpec == Init /\ [][Next]_vars /\ WF_vars(Step)

(***************************************************************************)
(* Properties.                                                             *)
(***************************************************************************)
\* the file name the loader about to run will look up
LoaderKey == IF pc = "loadPulls" THEN PullsFile(repo, page) ELSE EventsFile(repo, cur.Number)
AtLoader == pc \in {"loadPulls", "loadEvents"}

\* the loader returns at once with the decoding of the file: no httpGet, no writeCache
ServedFromCache ==
    /\ cache' = cache
    /\ gets' = gets
    /\ netLeft' = netLeft
    /\ IF pc = "loadPulls"
       THEN pc' = "page" /\ pagePulls' = UnmarshalPulls(cache[LoaderKey]).val
       ELSE pc' = "whoMerged" /\ events' = UnmarshalEvents(cache[LoaderKey]).val

C2_FetchOnce_Original ==
    variant = "main" =>
        /\ \A f \in missing : Count(gets, f) <= 1
        /\ (pc = "unmarshal" /\ key \in missing) =>
                (Count(gets, key) = 1 /\ key \in DOMAIN cache /\ cache[key] = data)

\* C2 amended: for a file name found missing in this run, the bytes httpGet returned are
\* in the file after writeCache, and httpGet is invoked for it once plus once for every
\* later read of the file that failed with an I/O error, and never otherwise.
C2_FetchOnce ==
    /\ \A f \in missing : Count(gets, f) <= 1 + Count(ioerrs, f)
    /\ \A f \in DOMAIN gets \ missing : gets[f] <= Count(ioerrs, f)
    /\ (pc = "unmarshal" /\ key \in missing) =>
            (Count(gets, key) >= 1 /\ key \in DOMAIN cache /\ cache[key] = data)

\* the same repository twice: the second traversal is served the page the first one fetched
C2_Witness ==
    /\ repoIdx = 2 /\ args[1] = args[2]
    /\ pc = "page" /\ rd = "hit" /\ key \in missing
    /\ Count(gets, key) = 1 /\ pagePulls # <<>>

\* C3 as stated: a file of the cache is never removed and its bytes never change.
C3_Immutable_Original ==
    [][variant = "main" =>
          \A f \in DOMAIN cache : f \in DOMAIN cache' /\ cache'[f] = cache[f]]_vars

\* C3 amended: a file of the cache is never removed, and its bytes change only when
\* the loader running for that file got an I/O error from readCache and writes the
\* bytes it fetched instead.
C3_Immutable ==
    [][\A f \in DOMAIN cache :
          /\ f \in DOMAIN cache'
          /\ cache'[f] # cache[f] => (f = key /\ rd = "ioerr" /\ pc = "writeCache")]_vars

\* a file has been written again after a failed read while another file is in the cache
C3_Witness ==
    /\ pc = "unmarshal" /\ rd = "ioerr"
    /\ \E f \in DOMAIN cache : f # key

\* a loader has returned to the driver
Returned == pc \in {"page", "whoMerged"}
Undecodable(f) ==
    IF f[3] = "pulls" THEN UnmarshalPulls(cache[f]).err ELSE UnmarshalEvents(cache[f]).err

\* C4: a loader never returns to the driver from a cache hit on bytes that do not decode
\* (the process has terminated instead), so no undecodable page is taken as an empty one.
C4_CorruptCacheIsFatal ==
    (variant = "main" /\ Returned /\ rd = "hit") => ~Undecodable(key)

(***************************************************************************)
(* The traversal of one repository, read from the history.                 *)
(***************************************************************************)
InYear(p) == ParseTime(p).ok /\ ParseTime(p).year = TargetYear
Older(p) == ParseTime(p).ok /\ ParseTime(p).year < TargetYear
ByTarget(p) == p.User.Login = TargetUser
KeptTags == {"authored", "merged"}

RECURSIVE KeptOf(_)
\* the visited pull requests tagged authored or merged, as they are appended to pulls
KeptOf(vs) ==
    IF vs = <<>> THEN <<>>
    ELSE LET v == vs[Len(vs)]
             rest == KeptOf(SubSeq(vs, 1, Len(vs) - 1))
         IN IF v.tag \in KeptTags
            THEN Append(rest, [v.pull EXCEPT !.MyContribution = v.tag,
                                             !.Timestamp = ParseTime(v.pull).date])
            ELSE rest

CountTag(vs, tag) == Cardinality({i \in DOMAIN vs : vs[i].tag = tag})

\* the RepoResult handed to the renderer for the repository just traversed
LastResult == out.body[Len(out.body)]
Rendered == variant = "main" /\ pc = "repo" /\ repoIdx >= 1

\* C5: in main, every visited pull request of the target year is tagged authored when
\* its author is the target user, whatever its state and events, and tagged none when
\* its author is someone else and it is open; the accumulated pulls and the rendered
\* RepoResult hold exactly the visited pull requests tagged authored or merged.
C5_AuthorAndOpen ==
    variant = "main" =>
        /\ \A i \in DOMAIN visited :
              LET p == visited[i].pull IN
              InYear(p) =>
                  /\ ByTarget(p) => visited[i].tag = "authored"
                  /\ (~ByTarget(p) /\ p.State = "open") => visited[i].tag = "none"
        /\ pulls = KeptOf(visited)
        /\ Rendered => LastResult.Pulls = KeptOf(visited)

\* one traversal has met a closed pull request of the target user, whose events say the
\* target user merged it, and an open pull request of someone else
C5_Witness ==
    /\ Rendered
    /\ \E i, j \in DOMAIN visited :
          /\ ByTarget(visited[i].pull) /\ visited[i].pull.State = "closed"
          /\ visited[i].tag = "authored"
          /\ ~ByTarget(visited[j].pull) /\ visited[j].pull.State = "open"
          /\ visited[j].tag = "none"

\* the pull requests of loaded page n that the range loop has visited, in order
VisitedOf(n) == SelectSeq(visited, LAMBDA v : v.page = n)

\* a prefix of the page in descending order of number: the visited ones are distinct
\* pull requests of the page, descending, and every other one has a smaller number
DescendingPrefix(vs, ps) ==
    /\ \A i \in DOMAIN vs : \E k \in DOMAIN ps : ps[k] = vs[i].pull
    /\ \A i, j \in DOMAIN vs : i < j => vs[i].pull.Number > vs[j].pull.Number
    /\ Len(vs) <= Len(ps)
    /\ \A k \in DOMAIN ps :
          (\A i \in DOMAIN vs : vs[i].pull # ps[k]) =>
              \A i \in DOMAIN vs : ps[k].Number < vs[i].pull.Number

\* C6: in main, the visited pull requests follow the pages in increasing order and each
\* page in descending order of number; a pull request older than the target year is
\* the last one visited: the driver is done, loads no further page, and the accumulated
\* pulls, the counters and the rendered RepoResult hold only pull requests of the
\* target year visited before it.
C6_YearFilter ==
    variant = "main" =>
        /\ \A i, j \in DOMAIN visited : i < j => visited[i].page <= visited[j].page
        /\ \A i \in DOMAIN visited : visited[i].page \in DOMAIN loaded
        /\ \A n \in DOMAIN loaded : DescendingPrefix(VisitedOf(n), loaded[n].pulls)
        /\ \A i \in DOMAIN visited :
              Older(visited[i].pull) =>
                  /\ i = Len(visited)
                  /\ visited[i].tag = "cutoff"
                  /\ done
                  /\ Len(loaded) = visited[i].page
                  /\ pc \in {"render", "repo", "exit"}
        /\ \A k \in DOMAIN pulls :
              /\ InYear(pulls[k])
              /\ \E i \in DOMAIN visited :
                    visited[i].pull.Number = pulls[k].Number /\ ~Older(visited[i].pull)
        /\ authored = CountTag(visited, "authored")
        /\ merged = CountTag(visited, "merged")
        /\ Rendered =>
              /\ LastResult.Pulls = pulls
              /\ LastResult.Authored = authored /\ LastResult.Merged = merged

\* the report of a repository is out whose traversal was cut by an older pull request
\* after one pull request was kept and before a pull request of the target user
C6_Witness ==
    /\ Rendered
    /\ visited # <<>>
    /\ visited[Len(visited)].tag = "cutoff"
    /\ idx < Len(pagePulls)
    /\ InYear(pagePulls[idx + 1]) /\ ByTarget(pagePulls[idx + 1])
    /\ Len(LastResult.Pulls) = 1

\* C7: an empty page is the last page loaded for the repository: once loadPulls has
\* returned it, main is past the page loop and loads nothing more for the repository.
C7_EmptyPageStops ==
    /\ \A n \in DOMAIN loaded : loaded[n].page = n
    /\ \A n \in DOMAIN loaded : loaded[n].pulls = <<>> => n = Len(loaded)
    /\ (variant = "main" /\ loaded # <<>> /\ loaded[Len(loaded)].pulls = <<>>) =>
            /\ pc \in {"render", "repo", "exit"}
            /\ page = Len(loaded)

\* page 2 was the empty one: the repository is rendered with page 3 never looked up
C7_Witness ==
    /\ Rendered
    /\ Len(loaded) = 2 /\ loaded[2].pulls = <<>>
    /\ PullsFile(repo, 3) \notin DOMAIN cache

\* the bytes of httpGet are with the loader
BytesReturned == pc \in {"sleep", "writeCache", "unmarshal"}

\* C8: httpGet returns bytes only for a status code in [200,299]; for any other code the
\* process terminates, so no bytes are written to the cache.
C8_NonSuccessIsFatal ==
    (variant = "main" /\ BytesReturned) => status \in SuccessRange

\* the first "merged" event of the list exists and is by user u
MergedFirstBy(evs, u) ==
    \E i \in DOMAIN evs :
        /\ evs[i].Event = "merged" /\ evs[i].Actor.Login = u
        /\ \A j \in 1..(i - 1) : evs[j].Event # "merged"

EventsOf(p) == UnmarshalEvents(RemoteEvents(p.Number)).val

\* C9 as stated: in main, every visited closed pull request of the target year whose
\* first "merged" event is by the target user is tagged merged.
C9_Merged_Original ==
    variant = "main" =>
        \A i \in DOMAIN visited :
            LET p == visited[i].pull IN
            (InYear(p) /\ p.State = "closed" /\ MergedFirstBy(EventsOf(p), TargetUser))
                => visited[i].tag = "merged"

\* C9 amended: in main, every visited closed pull request of the target year whose
\* author is not the target user and whose first "merged" event is by the target user
\* is tagged merged.
C9_Merged ==
    variant = "main" =>
        \A i \in DOMAIN visited :
            LET p == visited[i].pull IN
            (InYear(p) /\ p.State = "closed" /\ ~ByTarget(p)
                /\ MergedFirstBy(EventsOf(p), TargetUser))
                => visited[i].tag = "merged"

\* a pull request of someone else was tagged merged on a list that starts with another event
C9_Witness ==
    /\ variant = "main"
    /\ \E i \in DOMAIN visited :
          /\ visited[i].tag = "merged"
          /\ ~ByTarget(visited[i].pull)
          /\ EventsOf(visited[i].pull)[1].Event # "merged"

\* C10: in both programs, outside httpGet the number of delay steps of the run equals
\* the number of its network calls answered with a status code in [200,299].
C10_DelayPerCall ==
    pc # "sleep" => delays = netOK

(***************************************************************************)
(* The cache as a store.                                                   *)
(***************************************************************************)
\* what a loader hands back for the bytes b of a file of its kind
Decoded(k, b) == IF k = "pulls" THEN UnmarshalPulls(b).val ELSE UnmarshalEvents(b).val
Handed == IF kind = "pulls" THEN pagePulls ELSE events

ReportsFor(n) ==
    /\ Len(out.body) = n
    /\ \A i \in 1..n : out.body[i].Name = args[i]

\* the process terminated in the traversal of repository repoIdx: nothing of it, and
\* nothing of a later repository, is on standard output
TerminatedClean ==
    (variant = "main" /\ pc = "fatal" /\ repoIdx >= 1) => ReportsFor(repoIdx - 1)

\* C12: in main, when the process terminates on a fatal condition in the traversal of
\* repository r, standard output holds the reports of the repositories before r and
\* nothing else; and no report is emitted for a repository in whose traversal a fatal
\* condition occurred: a rendered repository has no loaded page whose bytes do not decode.
C12_NoPartialReport ==
        /\ TerminatedClean
        /\ Rendered =>
              \A n \in DOMAIN loaded : ~Undecodable(PullsFile(repo, loaded[n].page))

(***************************************************************************)
(* The order of the loads.                                                 *)
(***************************************************************************)
\* a loader is about to run, is running, or has just returned
Loading ==
    pc \in {"loadPulls", "loadEvents", "httpGet", "sleep", "writeCache", "unmarshal",
            "page", "whoMerged"}

\* the pages loaded so far in this traversal are 1, 2, ..., each once
PagesInOrder == \A n \in DOMAIN loaded : loaded[n].page = n

\* C13: in main, the pages of a repository are loaded in the order 1, 2, 3, ... with none
\* skipped and none loaded twice (each call of loadPulls is for the page after the last
\* one loaded); the repositories are traversed in the order of the input, and whenever a
\* page or an event list of repository i is being loaded, the reports of exactly the
\* repositories 1 .. i-1 have been rendered, in that order.
C13_Ordering ==
    variant = "main" =>
        /\ PagesInOrder
        /\ pc = "loadPulls" => page = Len(loaded) + 1
        /\ Loading =>
              /\ repoIdx \in 1..Len(args)
              /\ ReportsFor(repoIdx - 1)
              /\ pc \notin {"loadPulls", "loadEvents"} => key[2] = args[repoIdx]

\* the second page of the second of two different repositories is about to be loaded,
\* after the report of the first
C13_Witness ==
    /\ variant = "main"
    /\ pc = "loadPulls" /\ page = 2 /\ repoIdx = 2
    /\ args[1] # args[2]
    /\ ReportsFor(1)

(***************************************************************************)
(* The reference scenario.                                                 *)
(***************************************************************************)
\* page 1 of the scenario as loadPulls returns it, in either order
ScenarioPage1 == {<<Pull(P5), Pull(P4)>>, <<Pull(P4), Pull(P5)>>}

\* the traversal just rendered is the scenario: octo/demo, page 1 as above, page 2 empty
ScenarioRun ==
    /\ Rendered
    /\ repo = "octo/demo"
    /\ Len(loaded) = 2
    /\ loaded[1].pulls \in ScenarioPage1
    /\ loaded[2].pulls = <<>>

ScenarioResult ==
    [Name     |-> "octo/demo",
     Pulls    |-> << [Pull(P5) EXCEPT !.MyContribution = "authored",
                                      !.Timestamp = <<2021, 3, 1>>],
                     [Pull(P4) EXCEPT !.MyContribution = "merged",
                                      !.Timestamp = <<2021, 2, 1>>] >>,
     Authored |-> 1,
     Merged   |-> 1]

\* C14: in main, for octo/demo with page 1 holding #5 (by the target user, created
\* 2021-03-01) and #4 (by another user, closed, created 2021-02-01, merged by the target
\* user) in either order and page 2 empty, the rendered RepoResult has authored = 1,
\* merged = 1 and pulls = [#5 tagged authored, #4 tagged merged].
C14_ReferenceScenario == ScenarioRun => LastResult = ScenarioResult

\* the scenario was rendered from a page 1 that came with #4 before #5
C14_Witness ==
    /\ ScenarioRun
    /\ loaded[1].pulls = <<Pull(P4), Pull(P5)>>
    /\ LastResult = ScenarioResult

(***************************************************************************)
(* The calls of the loaders in one traversal.                              *)
(***************************************************************************)
\* the pull request is closed, of the target year and not by the target user
Eligible(p) == InYear(p) /\ p.State = "closed" /\ ~ByTarget(p)

\* C15: in main, once a pull request created before the target year has been visited on
\* page c, no loader is called again in this traversal: after the call of loadPulls for
\* page c the only calls are loadEvents calls for pull requests of page c with a higher
\* number (those visited before it), so there is no loadEvents call for it or for a
\* later pull request and no loadPulls call for a further page.
C15_NoLoadAfterCutoff ==
    variant = "main" =>
        \A i \in DOMAIN visited :
            Older(visited[i].pull) =>
                /\ ~AtLoader
                /\ \E j \in DOMAIN calls :
                      /\ calls[j] = PullsFile(repo, visited[i].page)
                      /\ \A k \in (j + 1)..Len(calls) :
                            /\ calls[k][3] = "events"
                            /\ calls[k][4] > visited[i].pull.Number

\* a traversal was cut by an older pull request and rendered while a closed pull request
\* of another user and of the target year came after it on the same page, for which
\* loadEvents was not called
C15_Witness ==
    /\ Rendered
    /\ \E i \in DOMAIN visited :
          /\ Older(visited[i].pull)
          /\ \E k \in DOMAIN loaded[visited[i].page].pulls :
                LET q == loaded[visited[i].page].pulls[k] IN
                /\ q.Number < visited[i].pull.Number
                /\ Eligible(q)
                /\ \A c \in DOMAIN calls : calls[c] # EventsFile(repo, q.Number)

(***************************************************************************)
(* whoMerged.                                                              *)
(***************************************************************************)
\* the actor of the first "merged" event of the list, the user "nobody" without one
FirstMerged(evs) ==
    IF \E i \in DOMAIN evs : evs[i].Event = "merged"
    THEN evs[CHOOSE i \in DOMAIN evs :
                /\ evs[i].Event = "merged"
                /\ \A j \in DOMAIN evs : j < i => evs[j].Event # "merged"].Actor
    ELSE [Login |-> "nobody"]

\* the event list loadEvents handed to whoMerged for pull request p of this traversal
EventsHanded(p) == UnmarshalEvents(cache[EventsFile(repo, p.Number)]).val

\* C16: in both programs whoMerged returns the actor of the first "merged" event of the
\* list of loadEvents, and the user "nobody" when the list has none; so in main a closed
\* pull request of the target year, not by the target user, whose first "merged" event
\* is by someone else (or missing) is tagged none, whatever later events say.
C16_WhoMerged ==
    /\ pc = "whoMerged" => WhoMerged(events) = FirstMerged(events)
    /\ variant = "main" =>
          \A i \in DOMAIN visited :
              LET p == visited[i].pull IN
              (Eligible(p) /\ FirstMerged(EventsHanded(p)).Login # TargetUser)
                  => visited[i].tag = "none"

\* a closed pull request of another user was tagged none although a "merged" event by
\* the target user follows the first "merged" event, which is by someone else
C16_Witness ==
    /\ variant = "main"
    /\ \E i \in DOMAIN visited :
          LET p == visited[i].pull
              evs == EventsHanded(p)
          IN /\ Eligible(p)
             /\ visited[i].tag = "none"
             /\ \E a, b \in DOMAIN evs :
                   /\ a < b
                   /\ evs[a].Event = "merged" /\ evs[a].Actor.Login # TargetUser
                   /\ evs[b].Event = "merged" /\ evs[b].Actor.Login = TargetUser

\* the number of loadEvents calls of this traversal for issue n
EventCalls(n) == Cardinality({c \in DOMAIN calls : calls[c] = EventsFile(repo, n)})

\* the number of visits of this traversal to pull request n as a closed pull request of
\* the target year that is not by the target user
EligibleVisits(n) ==
    Cardinality({i \in DOMAIN visited :
                    visited[i].pull.Number = n /\ Eligible(visited[i].pull)})

\* loadEvents for issue n is running or has just returned, its pull request not yet tagged
EventsPending(n) ==
    IF /\ pc \in {"httpGet", "sleep", "writeCache", "unmarshal", "whoMerged"}
       /\ key = EventsFile(repo, n)
    THEN 1 ELSE 0

\* the issue numbers seen in this traversal
Seen ==
    {visited[i].pull.Number : i \in DOMAIN visited}
        \cup {calls[c][4] : c \in {d \in DOMAIN calls : calls[d][3] = "events"}}

\* C17: in main, in one traversal loadEvents is called once for each visit to a pull
\* request that is of the target year, closed and not by the target user (the call for
\* the pull request being classified included), and for no other pull request: not for
\* one by the target user, an open one, or one of another year.  When the process has
\* terminated, the last call may be one that did not return.
C17_EventsOnDemand ==
    variant = "main" =>
        /\ \A c \in DOMAIN calls : calls[c][2] = repo
        /\ \A n \in Seen :
              IF pc = "fatal"
              THEN EventCalls(n) - EligibleVisits(n) \in {0, 1}
              ELSE EventCalls(n) = EligibleVisits(n) + EventsPending(n)

\* a traversal visited the same closed pull request of another user on two pages and
\* called loadEvents for it twice, and visited a pull request without any call
C17_Witness ==
    /\ variant = "main" /\ pc = "pull"
    /\ \E n \in Seen : EventCalls(n) = 2 /\ EligibleVisits(n) = 2
    /\ \E i \in DOMAIN visited :
          ~Eligible(visited[i].pull) /\ EventCalls(visited[i].pull.Number) = 0

(***************************************************************************)
(* The accumulated result.                                                 *)
(***************************************************************************)
\* the place in visited of the k-th pull request that was kept
KthKept(k) ==
    CHOOSE i \in DOMAIN visited :
        /\ visited[i].tag \in KeptTags
        /\ Cardinality({j \in 1..i : visited[j].tag \in KeptTags}) = k

\* counters, tags and years of an accumulated list agree
Consistent(ps, a, m) ==
    /\ a + m = Len(ps)
    /\ a = Cardinality({k \in DOMAIN ps : ps[k].MyContribution = "authored"})
    /\ m = Cardinality({k \in DOMAIN ps : ps[k].MyContribution = "merged"})
    /\ \A k \in DOMAIN ps :
          /\ ps[k].MyContribution \in KeptTags
          /\ ps[k].CreatedAt.layout = "Z" /\ ps[k].CreatedAt.y = TargetYear

\* C18: in main, at every point of a traversal and in every rendered RepoResult,
\* authored + merged is the number of accumulated pulls, every accumulated pull is
\* tagged authored or merged and was created in the target year; the accumulated pulls
\* are the kept visited ones, and two of them taken from the same page are in strictly
\* descending order of number.
C18_ResultConsistent ==
    variant = "main" =>
        /\ Consistent(pulls, authored, merged)
        /\ \A r \in DOMAIN out.body :
              Consistent(out.body[r].Pulls, out.body[r].Authored, out.body[r].Merged)
        /\ Len(pulls) = Cardinality({i \in DOMAIN visited : visited[i].tag \in KeptTags})
        /\ \A k \in DOMAIN pulls : pulls[k].Number = visited[KthKept(k)].pull.Number
        /\ \A a, b \in DOMAIN pulls :
              (a < b /\ visited[KthKept(a)].page = visited[KthKept(b)].page)
                  => pulls[a].Number > pulls[b].Number

\* a rendered RepoResult holds an authored and a merged pull request of one page, which
\* came from the remote service in ascending order
C18_Witness ==
    /\ Rendered
    /\ LastResult.Authored >= 1 /\ LastResult.Merged >= 1
    /\ \E a, b \in DOMAIN pulls :
          /\ a < b /\ visited[KthKept(a)].page = visited[KthKept(b)].page
          /\ LET ps == loaded[visited[KthKept(a)].page].pulls IN
             \E x, y \in DOMAIN ps :
                x < y /\ ps[x].Number = pulls[b].Number /\ ps[y].Number = pulls[a].Number

(***************************************************************************)
(* Write before decode.                                                    *)
(***************************************************************************)
\* the step in which json.Unmarshal of the fetched bytes fails and the process terminates
DecodeFails == pc = "unmarshal" /\ pc' = "fatal"

\* the bytes that failed to decode are in the cache under the key of the loader
AlreadyWritten ==
    /\ key \in DOMAIN cache' /\ cache'[key] = data
    /\ key \in DOMAIN written' /\ written'[key].bytes = data
    /\ Undecodable(key)

\* the step in which a loader reads a file of undecodable bytes, which only a run that
\* terminated at the decoding can have left
ReadsLeftover ==
    /\ AtLoader /\ pc' # pc
    /\ LoaderKey \in DOMAIN cache /\ Undecodable(LoaderKey)

\* the loader returns from a cache hit without a network call
HitWithoutGet == rd' = "hit" /\ pc' \in {"page", "whoMerged"} /\ gets' = gets

\* C19 as stated: when a loader terminates the process because fetched bytes do not
\* decode, the cache holds those bytes under the key, and every later call of the loader
\* for that key is a cache hit without a network call.
C19_WriteBeforeDecode_Original ==
    [][/\ DecodeFails => AlreadyWritten
       /\ (variant = "main" /\ ReadsLeftover) => HitWithoutGet]_vars

\* C19 amended: in both programs, when a loader terminates the process because fetched
\* bytes do not decode, the cache holds those bytes under the key, and every later call
\* of the loader for that key whose read of the file does not fail with an I/O error is
\* a cache hit without a network call.
C19_WriteBeforeDecode ==
    [][/\ DecodeFails => AlreadyWritten
       /\ (ReadsLeftover /\ rd' # "ioerr") => HitWithoutGet]_vars

\* a run was served from the cache, without a network call for the key, the undecodable
\* bytes that an earlier run wrote before it terminated at the decoding
C19_Witness ==
    /\ Returned /\ rd = "hit"
    /\ Undecodable(key)
    /\ key \in DOMAIN written /\ written[key].bytes = cache[key]
    /\ Count(gets, key) = 0

(***************************************************************************)
(* Termination of the driver.                                              *)
(***************************************************************************)
Newer(p) == ParseTime(p).ok /\ ParseTime(p).year > TargetYear

\* the traversal has ended: the report is about to be rendered
Ended == pc = "render"
EndedByEmptyPage == loaded # <<>> /\ loaded[Len(loaded)].pulls = <<>>
EndedByCutoff == done /\ visited # <<>> /\ Older(visited[Len(visited)].pull)

\* a visited pull request newer than the target year is skipped and does not end the
\* traversal: when the traversal has ended with it as the last one visited, it ended at
\* an empty page
FutureSkipped ==
    variant = "main" =>
        \A i \in DOMAIN visited :
            Newer(visited[i].pull) =>
                /\ visited[i].tag = "future"
                /\ (i = Len(visited) /\ pc \in {"render", "repo", "exit"})
                      => (~done /\ EndedByEmptyPage)

\* C20: in main, under fair scheduling of the process, every run that has started
\* renders the RepoResult of every repository of the input, in order, and exits (so each
\* of its traversals ends), unless it terminates on a fatal condition; a traversal ends
\* only at an empty page or at the year cutoff; and a pull request newer than the target
\* year is skipped without ending the traversal.
C20_Termination ==
    /\ [](variant = "main" /\ Ended => EndedByEmptyPage \/ EndedByCutoff)
    /\ (variant = "main" /\ pc = "start")
          ~> (pc = "fatal" \/ (variant = "main" /\ pc = "exit" /\ ReportsFor(Len(args))))
    /\ []FutureSkipped

\* a run has rendered every repository and exited, the last traversal having skipped a
\* newer pull request, kept a later one and ended at an empty page
C20_Witness ==
    /\ variant = "main" /\ pc = "exit"
    /\ ReportsFor(Len(args))
    /\ EndedByEmptyPage
    /\ \E i, j \in DOMAIN visited :
          i < j /\ Newer(visited[i].pull) /\ visited[j].tag \in KeptTags

====
